---- MODULE Spec2Model ----
(***************************************************************************)
(* Events Tracker (src/src/App.tsx): booking valuation, the filtered and   *)
(* aggregated views, the ICS text parser and the booking collection with   *)
(* its add / edit / remove / clear / import handlers.                      *)
(*                                                                         *)
(* Representation.                                                         *)
(*  - A JavaScript string is a sequence of one-character strings.          *)
(*  - `undefined` is the one-element sequence Undefined.                   *)
(*  - A stored numeric field (guests, rate, day, fee, food, drinks) is an  *)
(*    integer.  A computed JavaScript number is <<v>>, v the value times   *)
(*    Scale (so that hours = ms / 3 600 000 and rent / n are exact), and   *)
(*    NaN is <<>>.                                                         *)
(*  - A Date is <<t>>, t in seconds since the epoch (no model date carries *)
(*    milliseconds; the local zone is taken as one without offset or       *)
(*    daylight saving), and Invalid Date is <<>>.                          *)
(***************************************************************************)
EXTENDS Integers, Sequences, FiniteSets, Bags, TLC

VARIABLES
    events,        \* useState events: the booking collection
    filter,        \* useState filter: q, room, status, from, to
    form,          \* useState form: the add/edit form
    editingIndex,  \* useRef editingIndex: null or an index into filtered
    filtered,      \* useMemo filtered, as of the last render
    crashed,       \* the last render threw (date-fns RangeError)
    icsDefaults,   \* useState icsDefaults
    icsPending,    \* bag of importICSFile calls suspended at `await file.text()`
    lastAlert,     \* the alert() raised by the last handler, if any
    pc,            \* harness: "idle" before, "done" after a pure function is applied
    arg,           \* harness: the input of the pure function
    ret            \* harness: its result

vars == <<events, filter, form, editingIndex, filtered, crashed, icsDefaults, icsPending, lastAlert, pc, arg, ret>>

appVars == <<events, filter, form, editingIndex, filtered, crashed, icsDefaults, icsPending, lastAlert>>

harnessVars == <<pc, arg, ret>>

-----------------------------------------------------------------------------
(* Bounds of the model *)

MaxRaw == 4        \* longest raw text given to unfoldICSLines
MaxAgg == 2        \* most bookings in an aggregated collection
MaxEvents == 2      \* most bookings in the collection
MaxPending == 2    \* most file reads in flight
MaxNumText == 2    \* longest text typed into a numeric input
MaxLines == 4      \* most lines given to the block extraction loop

-----------------------------------------------------------------------------
(* JavaScript values *)

Undefined == <<"undefined">>
Null == <<"null">>
EmptyStr == <<>>
NaN == <<>>

Scale == 60 * 60

Num(x) == <<x * Scale>>

IsNaN(a) == a = NaN

Add(a, b) == IF IsNaN(a) \/ IsNaN(b) THEN NaN ELSE <<a[1] + b[1]>>

\* a stored numeric field times a computed number
MulInt(n, b) == IF IsNaN(b) THEN NaN ELSE <<n * b[1]>>

DivInt(a, n) == IF IsNaN(a) THEN NaN ELSE <<a[1] \div n>>

Max0(a) == IF IsNaN(a) THEN NaN ELSE IF a[1] > 0 THEN a ELSE <<0>>

Falsy(s) == s = Undefined \/ s = Null \/ s = EmptyStr

Or(s, dflt) == IF Falsy(s) THEN dflt ELSE s

-----------------------------------------------------------------------------
(* Characters and strings *)

Digits == <<"0", "1", "2", "3", "4", "5", "6", "7", "8", "9">>

UpperCase == <<"A", "B", "C", "D", "E", "F", "G", "H", "I", "J", "K", "L", "M",
               "N", "O", "P", "Q", "R", "S", "T", "U", "V", "W", "X", "Y", "Z">>

LowerCase == <<"a", "b", "c", "d", "e", "f", "g", "h", "i", "j", "k", "l", "m",
               "n", "o", "p", "q", "r", "s", "t", "u", "v", "w", "x", "y", "z">>

IsDigit(c) == \E i \in 1..Len(Digits) : Digits[i] = c

DigitVal(c) == (CHOOSE i \in 1..Len(Digits) : Digits[i] = c) - 1

AllDigits(s) == \A i \in 1..Len(s) : IsDigit(s[i])

RECURSIVE DecimalValue(_)
DecimalValue(s) ==
    IF s = <<>> THEN 0
    ELSE DecimalValue(SubSeq(s, 1, Len(s) - 1)) * 10 + DigitVal(s[Len(s)])

Slice(s, from, to) == SubSeq(s, from + 1, to)

ToLowerChar(c) ==
    IF \E i \in 1..Len(UpperCase) : UpperCase[i] = c
    THEN LowerCase[CHOOSE i \in 1..Len(UpperCase) : UpperCase[i] = c]
    ELSE c

ToUpperChar(c) ==
    IF \E i \in 1..Len(LowerCase) : LowerCase[i] = c
    THEN UpperCase[CHOOSE i \in 1..Len(LowerCase) : LowerCase[i] = c]
    ELSE c

ToLowerCase(s) == [i \in 1..Len(s) |-> ToLowerChar(s[i])]

ToUpperCase(s) == [i \in 1..Len(s) |-> ToUpperChar(s[i])]

Includes(hay, needle) ==
    \E i \in 0..(Len(hay) - Len(needle)) :
        SubSeq(hay, i + 1, i + Len(needle)) = needle

IndexOf(s, c) ==
    LET at == {i \in 1..Len(s) : s[i] = c}
    IN  IF at = {} THEN -1 ELSE (CHOOSE i \in at : \A j \in at : i <= j) - 1

RECURSIVE Split(_, _)
Split(s, c) ==
    LET idx == IndexOf(s, c)
    IN  IF idx < 0 THEN <<s>>
        ELSE <<Slice(s, 0, idx)>> \o Split(Slice(s, idx + 1, Len(s)), c)

RECURSIVE Join(_, _)
Join(parts, c) ==
    IF parts = <<>> THEN <<>>
    ELSE IF Len(parts) = 1 THEN parts[1]
    ELSE parts[1] \o <<c>> \o Join(Tail(parts), c)

\* the characters of the model in ascending order of their UTF-16 code unit
CharOrder ==
    <<"\t", "\n", "\r", " ", "-">> \o Digits \o <<":", ";">> \o UpperCase \o LowerCase

CodeRank(c) == CHOOSE i \in 1..Len(CharOrder) : CharOrder[i] = c

\* a > b on strings: comparison by code units, a proper prefix being smaller
StrGt(a, b) ==
    \/ \E k \in 1..Len(a) :
          /\ k <= Len(b)
          /\ SubSeq(a, 1, k - 1) = SubSeq(b, 1, k - 1)
          /\ CodeRank(a[k]) > CodeRank(b[k])
    \/ Len(a) > Len(b) /\ SubSeq(a, 1, Len(b)) = b

-----------------------------------------------------------------------------
(* Config *)

ROOMS == <<"Cafe", "Hall", "Backyard", "Seminar room", "Conferences room", "Pavilion">>

STATUSES == <<"Taken", "Booked", "Canceled", "On hold", "Free">>

Range(s) == {s[i] : i \in 1..Len(s)}

-----------------------------------------------------------------------------
(* Dates *)

IsLeap(y) == (y % 4 = 0 /\ y % 100 # 0) \/ y % 400 = 0

DaysInMonth(y, m) ==
    IF m = 2 THEN (IF IsLeap(y) THEN 28 + 1 ELSE 28)
    ELSE IF m \in {4, 6, 9, 11} THEN 30 ELSE 31

DaysFromCivil(y, m, d) ==
    LET yy == IF m <= 2 THEN y - 1 ELSE y
        era == yy \div 400
        yoe == yy - era * 400
        mp == (m + 9) % 12
        doy == (153 * mp + 2) \div 5 + d - 1
        doe == yoe * 365 + yoe \div 4 - yoe \div 100 + doy
    IN  era * 146097 + doe - 719468

SecPerDay == 24 * 60 * 60

MsPerHour == 3600000

SecPerHour == MsPerHour \div 1000

\* the offset of local time from UTC, in seconds (UTC+1, no daylight saving)
LocalOffset == 60 * 60

\* Date.UTC(y, mo, d, hh, mm, ss): mo counts from 0; fields out of range carry over;
\* a year 0..99 means 1900 + year
DateUTC(y, mo, d, hh, mm, ss) ==
    LET yr == IF y \in 0..99 THEN 1900 + y ELSE y
        days == DaysFromCivil(yr + mo \div 12, (mo % 12) + 1, 1) + (d - 1)
    IN  <<days * SecPerDay + hh * 3600 + mm * 60 + ss>>

\* new Date(y, mo, d, hh, mm, ss): the same fields read as local time
DateLocal(y, mo, d, hh, mm, ss) == <<DateUTC(y, mo, d, hh, mm, ss)[1] - LocalOffset>>

\* the local calendar fields of a Date
CivilFromDays(z) ==
    LET zz == z + 719468
        era == zz \div 146097
        doe == zz - era * 146097
        yoe == (doe - doe \div 1460 + doe \div 36524 - doe \div 146096) \div 365
        doy == doe - (365 * yoe + yoe \div 4 - yoe \div 100)
        mp == (5 * doy + 2) \div 153
        d == doy - (153 * mp + 2) \div 5 + 1
        m == IF mp < 10 THEN mp + 3 ELSE mp - 9
        y == yoe + era * 400 + (IF m <= 2 THEN 1 ELSE 0)
    IN  [year |-> y, month |-> m, day |-> d]

LocalFields(date) ==
    LET t == date[1] + LocalOffset
        c == CivilFromDays(t \div SecPerDay)
        sod == t % SecPerDay
    IN  [year |-> c.year, month |-> c.month, day |-> c.day,
         hours |-> sod \div 3600, minutes |-> (sod % 3600) \div 60]

\* new Date(`${dateStr}T00:00:00`) and parseISO(`${dateStr}T00:00:00`): local
\* midnight of a well-formed yyyy-MM-dd calendar date, Invalid Date otherwise.
LocalMidnight(dateStr) ==
    IF /\ Len(dateStr) = 10
       /\ dateStr[5] = "-" /\ dateStr[8] = "-"
       /\ AllDigits(Slice(dateStr, 0, 4))
       /\ AllDigits(Slice(dateStr, 5, 7))
       /\ AllDigits(Slice(dateStr, 8, 10))
    THEN LET y == DecimalValue(Slice(dateStr, 0, 4))
             m == DecimalValue(Slice(dateStr, 5, 7))
             d == DecimalValue(Slice(dateStr, 8, 10))
         IN  IF m \in 1..12 /\ d \in 1..DaysInMonth(y, m)
             THEN <<DaysFromCivil(y, m, d) * SecPerDay - LocalOffset>>
             ELSE <<>>
    ELSE <<>>

\* Number(part) || 0 for a part of a time string: digits give their value,
\* the empty string and a non-numeric part give 0.
NumberOr0(part) == IF part # Undefined /\ AllDigits(part) THEN DecimalValue(part) ELSE 0

parseTime(dateStr, timeStr) ==
    LET parts == Split(Or(timeStr, <<"0", ":", "0">>), ":")
        h == NumberOr0(parts[1])
        m == NumberOr0(IF Len(parts) >= 2 THEN parts[2] ELSE Undefined)
        d == LocalMidnight(dateStr)
    IN  IF d = <<>> THEN <<>> ELSE <<d[1] + (h * 60 + m) * 60>>

-----------------------------------------------------------------------------
(* Booking valuation *)

durationHrs(e) ==
    LET s == parseTime(e.date, e.start)
        en == parseTime(e.date, e.end)
    IN  IF s = <<>> \/ en = <<>> THEN NaN
        ELSE Max0(<<((en[1] - s[1]) * Scale) \div SecPerHour>>)

\* rentalPart with the day rate tested before the fixed fee
rentalPartDayFirst(e) ==
    IF e.status = "Free" THEN Num(0)
    ELSE IF e.day > 0 THEN Num(e.day)
    ELSE IF e.fee > 0 THEN Num(e.fee)
    ELSE MulInt(e.rate, durationHrs(e))

\* rentalPart taking a fee of 0 for a fixed fee
rentalPartFeeFromZero(e) ==
    IF e.status = "Free" THEN Num(0)
    ELSE IF e.fee >= 0 THEN Num(e.fee)
    ELSE IF e.day > 0 THEN Num(e.day)
    ELSE MulInt(e.rate, durationHrs(e))

rentalPart(e) ==
    IF e.status = "Free" THEN Num(0)
    ELSE IF e.fee > 0 THEN Num(e.fee)
    ELSE IF e.day > 0 THEN Num(e.day)
    ELSE MulInt(e.rate, durationHrs(e))

\* revenueFor counting the rental of every booking that is not Free
revenueForNotFree(e) ==
    LET base == IF e.status # "Free" THEN rentalPart(e) ELSE Num(0)
    IN  Add(base, Num(e.food + e.drinks))

revenueFor(e) ==
    LET base == IF e.status = "Taken" THEN rentalPart(e) ELSE Num(0)
    IN  Add(base, Num(e.food + e.drinks))

\* lostFor that also forfeits the food and drinks of a canceled booking
lostForWithExtras(e) ==
    IF e.status # "Canceled" THEN Num(0)
    ELSE Add(rentalPart(e), Num(e.food + e.drinks))

lostFor(e) ==
    IF e.status # "Canceled" THEN Num(0) ELSE rentalPart(e)

-----------------------------------------------------------------------------
(* Initial values of the component state *)

emptyForm ==
    [id |-> Undefined, name |-> EmptyStr, date |-> EmptyStr, start |-> EmptyStr,
     end |-> EmptyStr, rooms |-> <<>>, status |-> "Taken", guests |-> 0, rate |-> 0,
     day |-> 0, fee |-> 0, food |-> 0, drinks |-> 0, cancelReason |-> EmptyStr,
     notes |-> EmptyStr]

\* format(subMonths(new Date(), 3), "yyyy-MM-01") for a session opened in January 2024
InitFrom == <<"2", "0", "2", "3", "-", "1", "0", "-", "0", "1">>

\* format(addMonths(new Date(), 1), "yyyy-MM-28") for the same session
InitTo == <<"2", "0", "2", "4", "-", "0", "2", "-", "2", "8">>

InitFilter == [q |-> EmptyStr, room |-> "", status |-> "", from |-> InitFrom, to |-> InitTo]

InitRules ==
    <<"C", "a", "f", "e", ":", " ", "c", "a", "f", "e", ",", "b", "a", "r", "i", "s", "t", "a", "\n">> \o
    <<"H", "a", "l", "l", ":", " ", "h", "a", "l", "l", "\n">> \o
    <<"B", "a", "c", "k", "y", "a", "r", "d", ":", " ", "b", "a", "c", "k", "y", "a", "r", "d", ",", "g", "a", "r", "d", "e", "n", "\n">> \o
    <<"S", "e", "m", "i", "n", "a", "r", " ", "r", "o", "o", "m", ":", " ", "s", "e", "m", "i", "n", "a", "r", ",", "w", "o", "r", "k", "s", "h", "o", "p", "\n">> \o
    <<"C", "o", "n", "f", "e", "r", "e", "n", "c", "e", "s", " ", "r", "o", "o", "m", ":", " ", "c", "o", "n", "f", "e", "r", "e", "n", "c", "e", ",", "m", "e", "e", "t", "i", "n", "g", "\n">> \o
    <<"P", "a", "v", "i", "l", "i", "o", "n", ":", " ", "p", "a", "v", "i", "l", "i", "o", "n">>

InitIcsDefaults ==
    [status |-> "Taken", guests |-> 0, rate |-> 0, day |-> 0, fee |-> 0, rules |-> InitRules]

\* editingIndex.current is <<>> for null and <<i>> for the index i
NoIndex == <<>>

NoAlert == [kind |-> "none", n |-> 0]

AppIdle ==
    /\ events = <<>>
    /\ filter = InitFilter
    /\ form = emptyForm
    /\ editingIndex = NoIndex
    /\ filtered = <<>>
    /\ crashed = FALSE
    /\ icsDefaults = InitIcsDefaults
    /\ icsPending = EmptyBag
    /\ lastAlert = NoAlert

-----------------------------------------------------------------------------
(* Valuation of one booking: the inputs and the application of the functions *)

D_2024_01_15 == <<"2", "0", "2", "4", "-", "0", "1", "-", "1", "5">>

T_09_00 == <<"0", "9", ":", "0", "0">>

T_11_30 == <<"1", "1", ":", "3", "0">>

ValBookings ==
    { [emptyForm EXCEPT !.status = st, !.fee = fee, !.day = day, !.rate = rate,
                        !.date = date, !.start = start, !.end = end,
                        !.food = food, !.drinks = drinks] :
        st \in Range(STATUSES), fee \in {-1, 0, 100}, day \in {0, 50}, rate \in {0, 10},
        date \in {D_2024_01_15, EmptyStr}, start \in {EmptyStr, T_09_00, T_11_30},
        end \in {T_09_00, T_11_30}, food \in {0, 5}, drinks \in {0, 7} }

InitVal ==
    /\ AppIdle
    /\ pc = "idle"
    /\ arg \in ValBookings
    /\ ret = <<>>

\* one table row: rentalPart, revenueFor and lostFor of the booking
Valuate ==
    /\ pc = "idle"
    /\ pc' = "valued"
    /\ ret' = [hours |-> durationHrs(arg), rent |-> rentalPart(arg),
               revenue |-> revenueFor(arg), lost |-> lostFor(arg)]
    /\ UNCHANGED <<arg, appVars>>

NextVal == Valuate

SpecVal == InitVal /\ [][NextVal]_vars

\* minutes after midnight of an "HH:mm" clock time; 0 for the empty string
ClockMinutes(t) ==
    IF t = EmptyStr THEN 0
    ELSE DecimalValue(SubSeq(t, 1, 2)) * 60 + DecimalValue(SubSeq(t, 4, 5))

\* C1: rentalPart is a strict precedence chain: Free gives 0; otherwise a positive
\* fee gives the fee; otherwise a positive day rate gives the day rate; otherwise
\* the result is rate * durationHrs, and durationHrs of a booking whose date
\* parses is the time from start to end in hours, 0 when end is not after start.
C1_RentalPrecedenceChain ==
    pc = "valued" =>
        /\ arg.status = "Free" => ret.rent = Num(0)
        /\ (arg.status # "Free" /\ arg.fee > 0) => ret.rent = Num(arg.fee)
        /\ (arg.status # "Free" /\ ~(arg.fee > 0) /\ arg.day > 0) => ret.rent = Num(arg.day)
        /\ (arg.status # "Free" /\ ~(arg.fee > 0) /\ ~(arg.day > 0)) =>
               ret.rent = MulInt(arg.rate, ret.hours)
        /\ arg.date = D_2024_01_15 =>
               LET s == ClockMinutes(arg.start)
                   en == ClockMinutes(arg.end)
               IN  ret.hours = IF en > s THEN <<(en - s) * 60>> ELSE <<0>>

\* a Taken booking on the hourly rate: 10 per hour from 09:00 to 11:30 is 25
C1_Witness ==
    /\ pc = "valued"
    /\ arg.status = "Taken" /\ arg.fee = 0 /\ arg.day = 0 /\ arg.rate = 10
    /\ arg.start = T_09_00 /\ arg.end = T_11_30
    /\ ret.rent = Num(25)

\* C2 as stated: a non-zero fee is the rental charge whatever the status, and with
\* fee = 0 a non-zero day rate is the rental charge.
C2_AsStated ==
    pc = "valued" =>
        /\ arg.fee # 0 => ret.rent = Num(arg.fee)
        /\ (arg.fee = 0 /\ arg.day # 0) => ret.rent = Num(arg.day)

\* C2 (amended): for every booking whose status is not Free, a positive fee is the
\* rental charge whatever day and rate are, and with no positive fee a positive day
\* rate is the rental charge whatever rate is.
C2_FlatPriceWins ==
    (pc = "valued" /\ arg.status # "Free") =>
        /\ arg.fee > 0 => ret.rent = Num(arg.fee)
        /\ (arg.fee <= 0 /\ arg.day > 0) => ret.rent = Num(arg.day)

\* a Canceled booking carrying fee, day rate and hourly rate at once
C2_Witness ==
    /\ pc = "valued"
    /\ arg.status = "Canceled" /\ arg.fee = 100 /\ arg.day = 50 /\ arg.rate = 10
    /\ arg.date = D_2024_01_15 /\ arg.start = T_09_00 /\ arg.end = T_11_30
    /\ ret.rent = Num(100)

\* C3: revenueFor is rentalPart + food + drinks for a Taken booking and
\* food + drinks for every other status.
C3_RevenueTakenOnly ==
    pc = "valued" =>
        ret.revenue = IF arg.status = "Taken"
                      THEN Add(ret.rent, Num(arg.food + arg.drinks))
                      ELSE Num(arg.food + arg.drinks)

\* a Booked booking with a fee of 100: only its food and drinks count
C3_Witness ==
    /\ pc = "valued"
    /\ arg.status = "Booked" /\ arg.fee = 100 /\ arg.food = 5 /\ arg.drinks = 7
    /\ ret.rent = Num(100)
    /\ ret.revenue = Num(12)

\* C4: lostFor is 0 for every status other than Canceled and is rentalPart for a
\* Canceled booking; food and drinks are no part of it.
C4_LostCanceledOnly ==
    pc = "valued" =>
        ret.lost = IF arg.status = "Canceled" THEN ret.rent ELSE Num(0)

\* a Canceled booking with a fee of 100 and food and drinks: 100 is lost
C4_Witness ==
    /\ pc = "valued"
    /\ arg.status = "Canceled" /\ arg.fee = 100 /\ arg.food = 5 /\ arg.drinks = 7
    /\ ret.lost = Num(100)

-----------------------------------------------------------------------------
(* Derived lists: filtered *)

\* parseISO(`${filter.to}T23:59:59`) passed through endOfDay: the last second of
\* that calendar day
EndOfDay(dateStr) ==
    LET d == LocalMidnight(dateStr)
    IN  IF d = <<>> THEN <<>> ELSE <<d[1] + SecPerDay - 1>>

\* startOfDay(parseISO(`${filter.from}T00:00:00`))
StartOfDay(dateStr) == LocalMidnight(dateStr)

\* date-fns 2: isWithinInterval throws RangeError unless start <= end
IntervalThrows(start, end) == ~(start # <<>> /\ end # <<>> /\ start[1] <= end[1])

\* date-fns 2 (strict) returns time >= start && time <= end; date-fns 3 and later
\* first put start and end in ascending order, and with an Invalid Date among
\* them every comparison is false.
isWithinInterval(d, start, end, strict) ==
    IF d = <<>> \/ start = <<>> \/ end = <<>> THEN FALSE
    ELSE LET lo == IF strict \/ start[1] <= end[1] THEN start[1] ELSE end[1]
             hi == IF strict \/ start[1] <= end[1] THEN end[1] ELSE start[1]
         IN  d[1] >= lo /\ d[1] <= hi

qOk(e, flt) ==
    LET q == ToLowerCase(flt.q)
    IN  \/ q = EmptyStr
        \/ Includes(ToLowerCase(Or(e.name, EmptyStr)), q)
        \/ Includes(ToLowerCase(Or(e.notes, EmptyStr)), q)
        \/ Includes(ToLowerCase(Or(e.cancelReason, EmptyStr)), q)

rOk(e, flt) == flt.room = "" \/ \E i \in 1..Len(e.rooms) : e.rooms[i] = flt.room

sOk(e, flt) == flt.status = "" \/ e.status = flt.status

rangeOk(e, flt, strict) ==
    isWithinInterval(LocalMidnight(e.date), StartOfDay(flt.from), EndOfDay(flt.to), strict)

FilterPass(ev, flt, strict) ==
    SelectSeq(ev, LAMBDA e : qOk(e, flt) /\ rOk(e, flt) /\ sOk(e, flt) /\ rangeOk(e, flt, strict))

\* the filter callback runs once per booking, and under date-fns 2 it throws on
\* the first one when the interval is invalid
RenderThrows(ev, flt, strict) ==
    strict /\ ev # <<>> /\ IntervalThrows(StartOfDay(flt.from), EndOfDay(flt.to))

\* .sort((a, b) => (a.date > b.date ? 1 : -1)): the comparator never answers 0, so
\* for equal dates it is not a consistent comparator and the order of such
\* bookings is the engine's choice; bookings of different dates come out ascending.
SortOutcomes(l) ==
    { s \in { [i \in 1..Len(l) |-> l[p[i]]] : p \in Permutations(1..Len(l)) } :
        \A i \in 1..Len(s) : \A j \in (i + 1)..Len(s) : ~StrGt(s[i].date, s[j].date) }

\* what rendering with the collection ev and the filter flt leaves in filtered
RenderNext(ev, flt) ==
    \E strict \in BOOLEAN :
        IF RenderThrows(ev, flt, strict)
        THEN crashed' = TRUE /\ filtered' = <<>>
        ELSE crashed' = FALSE /\ filtered' \in SortOutcomes(FilterPass(ev, flt, strict))

(* Derived lists: perRoom *)

zeroBucket == [events |-> 0, revenue |-> Num(0), lost |-> Num(0), guests |-> 0]

\* each room is given the whole amount
roomShareWhole(x, n) == x

\* rent / n and lost / n
roomShare(x, n) == DivInt(x, n)

AddToRoom(map, r, e) ==
    LET n == IF Len(e.rooms) > 1 THEN Len(e.rooms) ELSE 1
        rent == rentalPart(e)
        lost == lostFor(e)
        old == IF r \in DOMAIN map THEN map[r] ELSE zeroBucket
        new == [events |-> old.events + 1,
                revenue |-> Add(old.revenue,
                                IF e.status = "Taken" THEN roomShare(rent, n) ELSE Num(0)),
                lost |-> Add(old.lost, roomShare(lost, n)),
                guests |-> old.guests + (IF e.status = "Taken" THEN e.guests ELSE 0)]
    IN  [x \in DOMAIN map \cup {r} |-> IF x = r THEN new ELSE map[x]]

RECURSIVE AddToRooms(_, _, _)
AddToRooms(map, rooms, e) ==
    IF rooms = <<>> THEN map
    ELSE AddToRooms(AddToRoom(map, Head(rooms), e), Tail(rooms), e)

RECURSIVE perRoomFrom(_, _)
perRoomFrom(map, fl) ==
    IF fl = <<>> THEN map
    ELSE perRoomFrom(AddToRooms(map, Head(fl).rooms, Head(fl)), Tail(fl))

perRoom(fl) == perRoomFrom([r \in Range(ROOMS) |-> zeroBucket], fl)

-----------------------------------------------------------------------------
(* The derived lists of one render: the inputs and the render itself *)

SeqUpTo(S, n) == UNION { [1..k -> S] : k \in 0..n }

D_2023_12_31 == <<"2", "0", "2", "3", "-", "1", "2", "-", "3", "1">>

D_2024_01_01 == <<"2", "0", "2", "4", "-", "0", "1", "-", "0", "1">>

D_2024_01_31 == <<"2", "0", "2", "4", "-", "0", "1", "-", "3", "1">>

D_2024_02_01 == <<"2", "0", "2", "4", "-", "0", "2", "-", "0", "1">>

\* name, notes and cancelReason of the enumerated bookings
AggTexts ==
    { [name |-> <<"A", "b">>, notes |-> Undefined, cancelReason |-> EmptyStr],
      [name |-> <<"c">>, notes |-> <<"x", "A", "B">>, cancelReason |-> EmptyStr],
      [name |-> <<"c">>, notes |-> Undefined, cancelReason |-> <<"a", "b">>],
      [name |-> <<"c">>, notes |-> EmptyStr, cancelReason |-> EmptyStr] }

\* rooms arrays of 0, 1, 2, 3 (one room twice) and all 6 rooms
AggRooms == { <<>>, <<"Cafe">>, <<"Cafe", "Hall">>, <<"Hall", "Cafe", "Cafe">>, ROOMS }

AggBookings ==
    { [emptyForm EXCEPT !.name = t.name, !.notes = t.notes, !.cancelReason = t.cancelReason,
                        !.rooms = rooms, !.status = st, !.date = date,
                        !.start = T_09_00, !.end = T_11_30, !.fee = 100, !.guests = 20] :
        t \in AggTexts, rooms \in AggRooms, st \in {"Taken", "Canceled"},
        date \in {D_2023_12_31, D_2024_01_01, D_2024_01_31, D_2024_02_01, EmptyStr} }

\* two more bookings of 2024-01-31, told apart by their id
TieBookings ==
    { [emptyForm EXCEPT !.id = <<i>>, !.name = <<"A", "b">>, !.rooms = <<"Cafe">>,
                        !.date = D_2024_01_31, !.start = T_09_00, !.end = T_11_30,
                        !.rate = 10, !.guests = 20] : i \in {"s", "t"} }

AggEvents ==
    {<<>>} \cup { <<b>> \o tail : b \in AggBookings, tail \in SeqUpTo(TieBookings, MaxAgg - 1) }

AggFilters ==
    { [q |-> q, room |-> room, status |-> st, from |-> r[1], to |-> r[2]] :
        q \in {EmptyStr, <<"A", "B">>, <<"x", "a">>}, room \in {"", "Cafe"},
        st \in {"", "Taken"},
        r \in { <<D_2024_01_01, D_2024_01_31>>, <<D_2024_01_31, D_2024_01_01>>,
                <<EmptyStr, D_2024_01_31>> } }

InitAgg ==
    /\ events \in AggEvents
    /\ filter \in AggFilters
    /\ filtered = <<>>
    /\ crashed = FALSE
    /\ form = emptyForm
    /\ editingIndex = NoIndex
    /\ icsDefaults = InitIcsDefaults
    /\ icsPending = EmptyBag
    /\ lastAlert = NoAlert
    /\ pc = "idle"
    /\ arg = <<>>
    /\ ret = <<>>

\* one render: filtered, then perRoom from it
RenderAgg ==
    /\ pc = "idle"
    /\ pc' = "rendered"
    /\ RenderNext(events, filter)
    /\ ret' = IF crashed' THEN <<>> ELSE [perRoom |-> perRoom(filtered')]
    /\ UNCHANGED <<events, filter, form, editingIndex, icsDefaults,
                   icsPending, lastAlert, arg>>

NextAgg == RenderAgg

SpecAgg == InitAgg /\ [][NextAgg]_vars

\* what a booking gives to a room for each entry of its rooms array: rent / N when
\* it is Taken, 0 otherwise
TakenShare(b) ==
    IF b.status = "Taken" THEN DivInt(rentalPart(b), Len(b.rooms)) ELSE Num(0)

\* the number of entries of b.rooms that are the room r
Entries(b, r) == Cardinality({ j \in 1..Len(b.rooms) : b.rooms[j] = r })

ShareTerm(b, r) == IF Entries(b, r) = 0 THEN 0 ELSE Entries(b, r) * TakenShare(b)[1]

RECURSIVE SumShares(_, _)
SumShares(fl, r) ==
    IF fl = <<>> THEN 0 ELSE ShareTerm(Head(fl), r) + SumShares(Tail(fl), r)

RECURSIVE SumEntries(_, _)
SumEntries(fl, r) ==
    IF fl = <<>> THEN 0 ELSE Entries(Head(fl), r) + SumEntries(Tail(fl), r)

\* C5: every room of ROOMS has a bucket; the revenue of a room is the sum, over the
\* filtered bookings and the entries of their rooms arrays naming that room, of
\* rentalPart / N for a Taken booking and 0 otherwise (N the length of the rooms
\* array), so that the N shares of a booking add up to its Taken-only rental charge;
\* a booking with no rooms is counted in no bucket.
C5_PerRoomShares ==
    (pc = "rendered" /\ ~crashed) =>
        /\ Range(ROOMS) \subseteq DOMAIN ret.perRoom
        /\ \A r \in DOMAIN ret.perRoom :
             /\ ret.perRoom[r].revenue = <<SumShares(filtered, r)>>
             /\ ret.perRoom[r].events = SumEntries(filtered, r)
        /\ \A i \in 1..Len(filtered) :
             Len(filtered[i].rooms) >= 1 =>
                 Len(filtered[i].rooms) * TakenShare(filtered[i])[1]
                     = (IF filtered[i].status = "Taken"
                        THEN rentalPart(filtered[i])[1] ELSE 0)

\* a Taken booking with fee 100 in Cafe and Hall gives 50 to each
C5_Witness ==
    /\ pc = "rendered" /\ ~crashed
    /\ Len(filtered) = 1
    /\ filtered[1].status = "Taken" /\ filtered[1].fee = 100
    /\ filtered[1].rooms = <<"Cafe", "Hall">>
    /\ ret.perRoom["Cafe"].revenue = Num(50)
    /\ ret.perRoom["Hall"].revenue = Num(50)
    /\ ret.perRoom["Pavilion"].revenue = Num(0)

\* the calendar day of a well-formed yyyy-MM-dd string as one ascending number
DayKey(dateStr) ==
    DecimalValue(SubSeq(dateStr, 1, 4)) * 10000 + DecimalValue(SubSeq(dateStr, 6, 7)) * 100
        + DecimalValue(SubSeq(dateStr, 9, 10))

InDayRange(date, from, to) ==
    /\ Len(date) = 10 /\ Len(from) = 10 /\ Len(to) = 10
    /\ DayKey(from) <= DayKey(date)
    /\ DayKey(date) <= DayKey(to)

TextMatches(e, q) ==
    \/ q = EmptyStr
    \/ \E f \in {e.name, e.notes, e.cancelReason} :
          f # Undefined /\ Includes(ToLowerCase(f), ToLowerCase(q))

ShouldShow(e) ==
    /\ TextMatches(e, filter.q)
    /\ filter.room = "" \/ filter.room \in Range(e.rooms)
    /\ filter.status = "" \/ filter.status = e.status
    /\ InDayRange(e.date, filter.from, filter.to)

\* C6 as stated: a booking is in the filtered set if and only if the search text,
\* the room filter and the status filter admit it and its date lies in the
\* inclusive calendar-day range [from, to].
C6_AsStated ==
    (pc = "rendered" /\ ~crashed) =>
        \A i \in 1..Len(events) :
            (\E j \in 1..Len(filtered) : filtered[j] = events[i]) <=> ShouldShow(events[i])

\* the same, for a filter whose from is not after its to: the case in which the
\* code agrees with C6
C6_ValidRangeOnly ==
    (pc = "rendered" /\ ~crashed /\ InDayRange(filter.from, filter.from, filter.to)) =>
        \A i \in 1..Len(events) :
            (\E j \in 1..Len(filtered) : filtered[j] = events[i]) <=> ShouldShow(events[i])

-----------------------------------------------------------------------------
(* ICS helpers: line unfolding *)

\* the characters of the model that the regular expression class \s matches
WhiteSpace == {" ", "\t", "\n", "\r"}

\* the characters lo..hi of s without each \r that a \n follows
RECURSIVE DropCRBeforeLF(_, _, _)
DropCRBeforeLF(s, lo, hi) ==
    IF lo > hi THEN <<>>
    ELSE IF lo = hi
         THEN IF s[lo] = "\r" /\ lo < Len(s) /\ s[lo + 1] = "\n" THEN <<>> ELSE <<s[lo]>>
         ELSE DropCRBeforeLF(s, lo, (lo + hi) \div 2)
                  \o DropCRBeforeLF(s, (lo + hi) \div 2 + 1, hi)

\* raw.replace(/\r\n/g, "\n")
ReplaceCRLF(s) == DropCRBeforeLF(s, 1, Len(s))

\* /^\s/.test(line)
StartsWithSpace(line) == line # <<>> /\ line[1] \in WhiteSpace

\* the loop body appending the continuation line whole
unfoldStepKeepSpace(out, line) ==
    IF StartsWithSpace(line) /\ Len(out) > 0
    THEN [out EXCEPT ![Len(out)] = @ \o line]
    ELSE Append(out, line)

\* one pass of the loop body of unfoldICSLines
unfoldStep(out, line) ==
    IF StartsWithSpace(line) /\ Len(out) > 0
    THEN [out EXCEPT ![Len(out)] = @ \o Slice(line, 1, Len(line))]
    ELSE Append(out, line)

RECURSIVE unfoldLoop(_, _)
unfoldLoop(out, lines) ==
    IF lines = <<>> THEN out
    ELSE unfoldLoop(unfoldStep(out, Head(lines)), Tail(lines))

unfoldICSLines(raw) == unfoldLoop(<<>>, Split(ReplaceCRLF(raw), "\n"))

-----------------------------------------------------------------------------
(* Line unfolding: the inputs and the application *)

RawAlphabet == {"\n", "\r", " ", "\t", "S"}

S_SUMMARY_Team == <<"S", "U", "M", "M", "A", "R", "Y", ":", "T", "e", "a", "m">>

S_Meeting == <<"M", "e", "e", "t", "i", "n", "g">>

\* "SUMMARY:Team\n Meeting"
FoldedSummary == S_SUMMARY_Team \o <<"\n", " ">> \o S_Meeting

RawTexts == SeqUpTo(RawAlphabet, MaxRaw) \cup {FoldedSummary}

InitUnfold ==
    /\ AppIdle
    /\ pc = "idle"
    /\ arg \in RawTexts
    /\ ret = <<>>

Unfold ==
    /\ pc = "idle"
    /\ pc' = "unfolded"
    /\ ret' = unfoldICSLines(arg)
    /\ UNCHANGED <<arg, appVars>>

NextUnfold == Unfold

SpecUnfold == InitUnfold /\ [][NextUnfold]_vars

\* the physical lines of a text: its pieces between line ends (\r\n or \n)
PhysicalLines(raw) == Split(ReplaceCRLF(raw), "\n")

RECURSIVE Concat(_)
Concat(ss) == IF ss = <<>> THEN <<>> ELSE Head(ss) \o Concat(Tail(ss))

\* the physical lines i+1 .. j-1, each without its first character, in one string
Continuations(P, i, j) == Concat([k \in 1..(j - 1 - i) |-> Tail(P[i + k])])

\* the logical lines that the set K of physical lines starts
LogicalLines(P, K) ==
    LET nth(k) == CHOOSE i \in K : Cardinality({j \in K : j < i}) = k - 1
        stop(k) == IF k < Cardinality(K) THEN nth(k + 1) ELSE Len(P) + 1
    IN  [k \in 1..Cardinality(K) |-> P[nth(k)] \o Continuations(P, nth(k), stop(k))]

\* C7 as stated: every physical line that begins with a whitespace character is
\* appended, without that character, to the previous logical line (so only the
\* other physical lines start a logical line), and "SUMMARY:Team\n Meeting"
\* unfolds to the one line "SUMMARY:Team Meeting".
C7_AsStated ==
    pc = "unfolded" =>
        LET P == PhysicalLines(arg)
        IN  /\ ret = LogicalLines(P, {i \in 1..Len(P) : ~StartsWithSpace(P[i])})
            /\ arg = FoldedSummary => ret = <<S_SUMMARY_Team \o <<" ">> \o S_Meeting>>

\* C7 (amended): every physical line after the first that begins with a
\* whitespace character is appended, without that character, to the previous
\* logical line; the first physical line and every line that does not begin with
\* whitespace start a logical line, unchanged; and "SUMMARY:Team\n Meeting"
\* unfolds to the one line "SUMMARY:TeamMeeting".
C7_Unfolding ==
    pc = "unfolded" =>
        LET P == PhysicalLines(arg)
        IN  /\ ret = LogicalLines(P, {i \in 1..Len(P) : i = 1 \/ ~StartsWithSpace(P[i])})
            /\ arg = FoldedSummary => ret = <<S_SUMMARY_Team \o S_Meeting>>

\* the folded SUMMARY line has been unfolded to one logical line
C7_Witness ==
    /\ pc = "unfolded"
    /\ arg = FoldedSummary
    /\ Len(ret) = 1
    /\ Len(ret[1]) = Len(FoldedSummary) - 2

-----------------------------------------------------------------------------
(* ICS helpers: blocks, properties, dates, rules *)

K_BEGIN == <<"B", "E", "G", "I", "N", ":", "V", "E", "V", "E", "N", "T">>

K_END == <<"E", "N", "D", ":", "V", "E", "V", "E", "N", "T">>

\* the loop in which a BEGIN:VEVENT met while a block is open leaves that block open
RECURSIVE extractBlocksKeepOpen(_, _, _)
extractBlocksKeepOpen(lines, blocks, cur) ==
    IF lines = <<>> THEN blocks
    ELSE LET line == Head(lines)
         IN  IF line = K_BEGIN
             THEN extractBlocksKeepOpen(Tail(lines), blocks, IF cur # <<>> THEN cur ELSE <<<<>>>>)
             ELSE IF line = K_END
                  THEN IF cur # <<>>
                       THEN extractBlocksKeepOpen(Tail(lines), Append(blocks, cur[1]), <<>>)
                       ELSE extractBlocksKeepOpen(Tail(lines), blocks, cur)
             ELSE IF cur # <<>>
                  THEN extractBlocksKeepOpen(Tail(lines), blocks, <<Append(cur[1], line)>>)
                  ELSE extractBlocksKeepOpen(Tail(lines), blocks, cur)

\* the block extraction loop of importICSFile; cur is <<>> for null and <<block>>
\* for an open block
RECURSIVE extractBlocks(_, _, _)
extractBlocks(lines, blocks, cur) ==
    IF lines = <<>> THEN blocks
    ELSE LET line == Head(lines)
         IN  IF line = K_BEGIN THEN extractBlocks(Tail(lines), blocks, <<<<>>>>)
             ELSE IF line = K_END
                  THEN IF cur # <<>>
                       THEN extractBlocks(Tail(lines), Append(blocks, cur[1]), <<>>)
                       ELSE extractBlocks(Tail(lines), blocks, cur)
             ELSE IF cur # <<>>
                  THEN extractBlocks(Tail(lines), blocks, <<Append(cur[1], line)>>)
                  ELSE extractBlocks(Tail(lines), blocks, cur)

RECURSIVE readPropsInto(_, _)
readPropsInto(obj, block) ==
    IF block = <<>> THEN obj
    ELSE LET line == Head(block)
             idx == IndexOf(line, ":")
         IN  IF idx < 0 THEN readPropsInto(obj, Tail(block))
             ELSE LET keyPart == Slice(line, 0, idx)
                      val == Slice(line, idx + 1, Len(line))
                      key == ToUpperCase(Split(keyPart, ";")[1])
                  IN  readPropsInto(
                          [k \in DOMAIN obj \cup {key} |-> IF k = key THEN val ELSE obj[k]],
                          Tail(block))

readProps(block) == readPropsInto([k \in {} |-> <<>>], block)

\* p[key]
Prop(p, key) == IF key \in DOMAIN p THEN p[key] ELSE Undefined

\* /([0-9]{8})T([0-9]{2})([0-9]{2})([0-9]{2})(Z?)/ matches s from the 0-based index i
DateTimeAt(s, i) ==
    /\ i + 15 <= Len(s)
    /\ AllDigits(Slice(s, i, i + 8))
    /\ s[i + 9] = "T"
    /\ AllDigits(Slice(s, i + 9, i + 15))

\* a Date, or <<>> for null
asLocal(dateStr) ==
    IF Falsy(dateStr) THEN <<>>
    ELSE IF Len(dateStr) = 8 /\ AllDigits(dateStr)
    THEN DateLocal(DecimalValue(Slice(dateStr, 0, 4)), DecimalValue(Slice(dateStr, 4, 6)) - 1,
                   DecimalValue(Slice(dateStr, 6, 8)), 0, 0, 0)
    ELSE IF ~\E i \in 0..Len(dateStr) : DateTimeAt(dateStr, i) THEN <<>>
    ELSE LET i == CHOOSE i \in 0..Len(dateStr) :
                      DateTimeAt(dateStr, i) /\ \A j \in 0..(i - 1) : ~DateTimeAt(dateStr, j)
             y == DecimalValue(Slice(dateStr, i, i + 4))
             mo == DecimalValue(Slice(dateStr, i + 4, i + 6)) - 1
             d == DecimalValue(Slice(dateStr, i + 6, i + 8))
             hh == DecimalValue(Slice(dateStr, i + 9, i + 11))
             mm == DecimalValue(Slice(dateStr, i + 11, i + 13))
             ss == DecimalValue(Slice(dateStr, i + 13, i + 15))
         IN  IF Len(dateStr) > i + 15 /\ dateStr[i + 16] = "Z"
             THEN DateUTC(y, mo, d, hh, mm, ss)
             ELSE DateLocal(y, mo, d, hh, mm, ss)

\* String(n) for a natural number
RECURSIVE NumToStr(_)
NumToStr(n) ==
    IF n < 10 THEN <<Digits[n + 1]>> ELSE NumToStr(n \div 10) \o <<Digits[(n % 10) + 1]>>

\* String(n).padStart(2, "0")
Pad2(n) == IF n < 10 THEN <<"0">> \o NumToStr(n) ELSE NumToStr(n)

fmtDate(d) ==
    LET f == LocalFields(d)
    IN  NumToStr(f.year) \o <<"-">> \o Pad2(f.month) \o <<"-">> \o Pad2(f.day)

fmtTime(d) ==
    LET f == LocalFields(d)
    IN  Pad2(f.hours) \o <<":">> \o Pad2(f.minutes)

RECURSIVE TrimStart(_)
TrimStart(s) == IF s # <<>> /\ s[1] \in WhiteSpace THEN TrimStart(Tail(s)) ELSE s

RECURSIVE TrimEnd(_)
TrimEnd(s) ==
    IF s # <<>> /\ s[Len(s)] \in WhiteSpace THEN TrimEnd(SubSeq(s, 1, Len(s) - 1)) ELSE s

Trim(s) == TrimEnd(TrimStart(s))

\* the name of each room as text
RoomText ==
    [r \in Range(ROOMS) |->
        CASE r = "Cafe" -> <<"C", "a", "f", "e">>
          [] r = "Hall" -> <<"H", "a", "l", "l">>
          [] r = "Backyard" -> <<"B", "a", "c", "k", "y", "a", "r", "d">>
          [] r = "Seminar room" -> <<"S", "e", "m", "i", "n", "a", "r", " ", "r", "o", "o", "m">>
          [] r = "Conferences room" -> <<"C", "o", "n", "f", "e", "r", "e", "n", "c", "e", "s", " ", "r", "o", "o", "m">>
          [] r = "Pavilion" -> <<"P", "a", "v", "i", "l", "i", "o", "n">>]

\* keys.split(",").map((k) => k.trim().toLowerCase()).filter(Boolean)
Keywords(keys) ==
    SelectSeq([i \in 1..Len(Split(keys, ",")) |-> ToLowerCase(Trim(Split(keys, ",")[i]))],
              LAMBDA k : k # EmptyStr)

\* the forEach callback of parseRules on one trimmed, non-empty line
RuleOf(line) ==
    LET parts == Split(line, ":")
        room == parts[1]
        keys == IF Len(parts) >= 2 THEN parts[2] ELSE Undefined
    IN  IF Falsy(room) \/ Falsy(keys) THEN <<>>
        ELSE IF ~\E r \in Range(ROOMS) : RoomText[r] = Trim(room) THEN <<>>
        ELSE IF Keywords(keys) = <<>> THEN <<>>
        ELSE <<[room |-> CHOOSE r \in Range(ROOMS) : RoomText[r] = Trim(room),
                kws |-> Keywords(keys)]>>

RECURSIVE RulesOf(_)
RulesOf(lines) ==
    IF lines = <<>> THEN <<>>
    ELSE (IF Trim(Head(lines)) = EmptyStr THEN <<>> ELSE RuleOf(Trim(Head(lines))))
             \o RulesOf(Tail(lines))

\* split(/\n+/) may be taken as split("\n"): the empty pieces are filtered out
parseRules(text) == RulesOf(Split(Or(text, EmptyStr), "\n"))

RECURSIVE guessRoomsFrom(_, _, _)
guessRoomsFrom(hay, rules, hits) ==
    IF rules = <<>> THEN hits
    ELSE LET r == Head(rules)
             hit == \E i \in 1..Len(r.kws) : Includes(hay, r.kws[i])
         IN  guessRoomsFrom(hay, Tail(rules),
                            IF hit /\ ~\E i \in 1..Len(hits) : hits[i] = r.room
                            THEN Append(hits, r.room) ELSE hits)

guessRooms(summary, location, rules) ==
    guessRoomsFrom(ToLowerCase(Or(summary, EmptyStr) \o <<" ">> \o Or(location, EmptyStr)),
                   rules, <<>>)

\* the ids crypto.randomUUID() gives are written "#0", "#1", ...; those the
\* application still holds somewhere are the numbers in UuidsHeld
IsUuid(id) == Len(id) > 1 /\ id[1] = "#"

HeldIds ==
    {events[i].id : i \in 1..Len(events)} \cup {filtered[i].id : i \in 1..Len(filtered)}
        \cup {form.id}

UuidsHeld == {DecimalValue(Tail(id)) : id \in {h \in HeldIds : IsUuid(h)}}

\* the n-th value crypto.randomUUID() gives to a handler: an id held nowhere, different
\* from the others the handler draws, and no UID of a file
RandomUUID(n) ==
    LET free == (0..(Cardinality(UuidsHeld) + n)) \ UuidsHeld
        nth == CHOOSE k \in free : Cardinality({m \in free : m < k}) = n
    IN  <<"#">> \o NumToStr(nth)

K_DTSTART == <<"D", "T", "S", "T", "A", "R", "T">>

K_DTEND == <<"D", "T", "E", "N", "D">>

K_SUMMARY == <<"S", "U", "M", "M", "A", "R", "Y">>

K_LOCATION == <<"L", "O", "C", "A", "T", "I", "O", "N">>

K_DESCRIPTION == <<"D", "E", "S", "C", "R", "I", "P", "T", "I", "O", "N">>

K_UID == <<"U", "I", "D">>

\* a block is synthesized as soon as its DTSTART decodes
SynthesizedOnStart(b) == asLocal(Prop(readProps(b), K_DTSTART)) # <<>>

\* whether the loop over the blocks pushes a booking for the block
Synthesized(b) ==
    LET p == readProps(b)
    IN  asLocal(Prop(p, K_DTSTART)) # <<>> /\ asLocal(Prop(p, K_DTEND)) # <<>>

\* the booking pushed for a block; uuid is the number of random ids used so far
SynthesizedRow(b, dflt, rules, uuid) ==
    LET p == readProps(b)
        d1 == asLocal(Prop(p, K_DTSTART))
        d2 == asLocal(Prop(p, K_DTEND))
        name == Or(Prop(p, K_SUMMARY), EmptyStr)
        loc == Or(Prop(p, K_LOCATION), EmptyStr)
        desc == Or(Prop(p, K_DESCRIPTION), EmptyStr)
    IN  [id |-> Or(Prop(p, K_UID), RandomUUID(uuid)),
         name |-> name, date |-> fmtDate(d1), start |-> fmtTime(d1),
         end |-> IF d2 = <<>> THEN EmptyStr ELSE fmtTime(d2),
         rooms |-> guessRooms(name, loc, rules),
         status |-> dflt.status, guests |-> dflt.guests, rate |-> dflt.rate,
         day |-> dflt.day, fee |-> dflt.fee, food |-> 0, drinks |-> 0,
         notes |-> Or(desc, loc), cancelReason |-> EmptyStr]

\* the loop over the blocks: the rows pushed and the random ids used
RECURSIVE importBlocks(_, _, _, _, _)
importBlocks(blocks, dflt, rules, uuid, imported) ==
    IF blocks = <<>> THEN [imported |-> imported, uuid |-> uuid]
    ELSE LET b == Head(blocks)
         IN  IF ~Synthesized(b) THEN importBlocks(Tail(blocks), dflt, rules, uuid, imported)
             ELSE importBlocks(Tail(blocks), dflt, rules,
                               IF Falsy(Prop(readProps(b), K_UID)) THEN uuid + 1 ELSE uuid,
                               Append(imported, SynthesizedRow(b, dflt, rules, uuid)))

\* the VEVENT blocks of the text of a file
icsBlocks(txt) == extractBlocks(unfoldICSLines(txt), <<>>, <<>>)

\* importICSFile from the text of the file to the rows it hands to setEvents
importICS(txt, dflt, uuid) ==
    importBlocks(icsBlocks(txt), dflt, parseRules(dflt.rules), uuid, <<>>)

-----------------------------------------------------------------------------
(* The application: inputs of the handlers *)

\* a block with a UID, a floating start and end, and a summary naming a room
BlockU ==
    <<<<"B", "E", "G", "I", "N", ":", "V", "E", "V", "E", "N", "T">>, <<"U", "I", "D", ":", "u">>, <<"D", "T", "S", "T", "A", "R", "T", ":", "2", "0", "2", "4", "0", "1", "1", "5", "T", "0", "9", "0", "0", "0", "0">>, <<"D", "T", "E", "N", "D", ":", "2", "0", "2", "4", "0", "1", "1", "5", "T", "1", "1", "0", "0", "0", "0">>,
      <<"S", "U", "M", "M", "A", "R", "Y", ":", "h", "a", "l", "l">>, <<"E", "N", "D", ":", "V", "E", "V", "E", "N", "T">>>>

\* a block with no DTEND
BlockNoEnd == <<<<"B", "E", "G", "I", "N", ":", "V", "E", "V", "E", "N", "T">>, <<"U", "I", "D", ":", "v">>, <<"D", "T", "S", "T", "A", "R", "T", ":", "2", "0", "2", "4", "0", "1", "1", "5", "T", "0", "9", "0", "0", "0", "0">>, <<"E", "N", "D", ":", "V", "E", "V", "E", "N", "T">>>>

\* a block with no UID, an all-day start and a UTC end
BlockNoUid ==
    <<<<"B", "E", "G", "I", "N", ":", "V", "E", "V", "E", "N", "T">>, <<"D", "T", "S", "T", "A", "R", "T", ":", "2", "0", "2", "4", "0", "1", "3", "1">>, <<"D", "T", "E", "N", "D", ":", "2", "0", "2", "4", "0", "1", "3", "1", "T", "1", "2", "0", "0", "0", "0", "Z">>, <<"S", "U", "M", "M", "A", "R", "Y", ":", "x">>,
      <<"E", "N", "D", ":", "V", "E", "V", "E", "N", "T">>>>

\* a block whose DTSTART is in no ICS date form
BlockBadStart ==
    <<<<"B", "E", "G", "I", "N", ":", "V", "E", "V", "E", "N", "T">>, <<"U", "I", "D", ":", "w">>, <<"D", "T", "S", "T", "A", "R", "T", ":", "2", "0", "2", "4", "-", "0", "1", "-", "1", "5">>, <<"D", "T", "E", "N", "D", ":", "2", "0", "2", "4", "0", "1", "1", "5", "T", "1", "1", "0", "0", "0", "0">>, <<"E", "N", "D", ":", "V", "E", "V", "E", "N", "T">>>>

IcsFiles == {"a.ics", "b.ics"}

\* file.text() of the chosen .ics file
FileText(file) ==
    IF file = "a.ics"
    THEN Join(<<<<"B", "E", "G", "I", "N", ":", "V", "C", "A", "L", "E", "N", "D", "A", "R">>>> \o BlockU \o BlockNoEnd \o BlockNoUid
                  \o <<<<"E", "N", "D", ":", "V", "C", "A", "L", "E", "N", "D", "A", "R">>>>, "\n")
    ELSE Join(BlockBadStart \o BlockNoEnd \o BlockU, "\n")

\* the blocks of each file and the rules of the default rule text, computed once
FileBlocks == [file \in IcsFiles |-> icsBlocks(FileText(file))]

DefaultRules == parseRules(InitRules)

rulesOf(dflt) == IF dflt.rules = InitRules THEN DefaultRules ELSE parseRules(dflt.rules)

JsonRow(name, status) ==
    [emptyForm EXCEPT !.id = Undefined, !.name = name, !.status = status,
                      !.date = D_2024_01_31, !.start = T_09_00, !.end = T_11_30, !.rate = 10]

JsonFiles == {"rows.json", "object.json", "broken.json"}

\* JSON.parse of the chosen .json file: an array of two bookings saved without an id,
\* a value that is no array, or a SyntaxError
ParsedJson(file) ==
    IF file = "rows.json"
    THEN [kind |-> "array", rows |-> <<JsonRow(<<"A">>, "Taken"), JsonRow(<<"B">>, "Canceled")>>]
    ELSE IF file = "object.json" THEN [kind |-> "object", rows |-> <<>>]
    ELSE [kind |-> "invalid", rows |-> <<>>]

FormNames == {<<"B">>}

FilterQueries == {EmptyStr, <<"b">>}

InFlight == BagCardinality(icsPending)

-----------------------------------------------------------------------------
(* The application: state and handlers *)

Init ==
    /\ events = <<>>
    /\ filter = InitFilter
    /\ form = emptyForm
    /\ editingIndex = NoIndex
    /\ filtered = <<>>
    /\ crashed = FALSE
    /\ icsDefaults = InitIcsDefaults
    /\ icsPending = EmptyBag
    /\ lastAlert = NoAlert
    /\ pc = "app"
    /\ arg = <<>>
    /\ ret = <<>>

\* the values toNum is given: a number, a string (the value of an input), null, undefined
JsNum(n) == [t |-> "number", n |-> n, s |-> EmptyStr]

JsStr(s) == [t |-> "string", n |-> 0, s |-> s]

JsNull == [t |-> "null", n |-> 0, s |-> EmptyStr]

JsUndefined == [t |-> "undefined", n |-> 0, s |-> EmptyStr]

\* +v of a string: white space around it is dropped, nothing left is 0, an optional
\* sign and decimal digits are that integer, and a text of any other form among
\* those over NumAlphabet is NaN (<<>>)
StringToNumber(s) ==
    LET t == Trim(s)
        signed == t # <<>> /\ t[1] \in {"-", "+"}
        digits == IF signed THEN Tail(t) ELSE t
    IN  IF t = <<>> THEN <<0>>
        ELSE IF digits = <<>> \/ ~AllDigits(digits) THEN <<>>
        ELSE IF signed /\ t[1] = "-" THEN <<0 - DecimalValue(digits)>>
        ELSE <<DecimalValue(digits)>>

\* v === null || v === undefined || v === "" || isNaN(+v) ? 0 : +v
toNum(v) ==
    IF v.t = "null" \/ v.t = "undefined" THEN 0
    ELSE IF v.t = "number" THEN v.n
    ELSE IF v.s = EmptyStr \/ StringToNumber(v.s) = <<>> THEN 0
    ELSE StringToNumber(v.s)[1]

startAdd ==
    /\ ~crashed
    /\ editingIndex' = NoIndex
    /\ form' = emptyForm
    /\ lastAlert' = NoAlert
    /\ UNCHANGED <<events, filter, filtered, crashed, icsDefaults, icsPending,
                   harnessVars>>

startEdit(idx) ==
    /\ ~crashed
    /\ idx \in 0..(Len(filtered) - 1)
    /\ editingIndex' = <<idx>>
    /\ form' = filtered[idx + 1]
    /\ lastAlert' = NoAlert
    /\ UNCHANGED <<events, filter, filtered, crashed, icsDefaults, icsPending,
                   harnessVars>>

\* the onChange handlers of the form inputs: a name typed in, and the date and the
\* times where they are still blank
setForm(name) ==
    /\ ~crashed
    /\ form' = [form EXCEPT !.name = name,
                            !.date = Or(@, D_2024_01_31),
                            !.start = Or(@, T_09_00),
                            !.end = Or(@, T_11_30)]
    /\ form' # form
    /\ lastAlert' = NoAlert
    /\ UNCHANGED <<events, filter, editingIndex, filtered, crashed, icsDefaults,
                   icsPending, harnessVars>>

\* Array.from(new Set(form.rooms || [])).filter(Boolean)
RECURSIVE Distinct(_)
Distinct(seq) ==
    IF seq = <<>> THEN <<>>
    ELSE LET front == Distinct(SubSeq(seq, 1, Len(seq) - 1))
             last == seq[Len(seq)]
         IN  IF \E i \in 1..Len(front) : front[i] = last THEN front ELSE Append(front, last)

\* the row saveForm builds from the form
FormRow(f) ==
    [f EXCEPT !.id = Or(f.id, RandomUUID(0)),
              !.name = Trim(Or(f.name, EmptyStr)),
              !.cancelReason = Trim(Or(f.cancelReason, EmptyStr)),
              !.notes = Trim(Or(f.notes, EmptyStr)),
              !.rooms = Distinct(f.rooms),
              !.guests = toNum(JsNum(f.guests)), !.rate = toNum(JsNum(f.rate)),
              !.day = toNum(JsNum(f.day)), !.fee = toNum(JsNum(f.fee)),
              !.food = toNum(JsNum(f.food)), !.drinks = toNum(JsNum(f.drinks))]

\* events.findIndex((e) => e.id === id)
FindIndexById(ev, id) ==
    LET at == {i \in 1..Len(ev) : ev[i].id = id}
    IN  IF at = {} THEN -1 ELSE (CHOOSE i \in at : \A j \in at : i <= j) - 1

\* copy[globalIdx] = row: an index of -1 sets a property and no element
SetAt(ev, idx, row) == IF idx < 0 THEN ev ELSE [ev EXCEPT ![idx + 1] = row]

saveForm ==
    /\ ~crashed
    /\ LET row == FormRow(form)
       IN  IF Falsy(row.name) \/ Falsy(row.date) \/ Falsy(row.start) \/ Falsy(row.end)
          THEN /\ lastAlert' = [kind |-> "fill", n |-> 0]
               /\ UNCHANGED <<events, form, editingIndex, filtered, crashed>>
          ELSE IF editingIndex = NoIndex
          THEN /\ Len(events) < MaxEvents
               /\ events' = Append(events, row)
               /\ RenderNext(events', filter)
               /\ editingIndex' = NoIndex
               /\ form' = emptyForm
               /\ lastAlert' = NoAlert
          ELSE IF editingIndex[1] >= Len(filtered)
          THEN \* filtered[editingIndex.current] is undefined: TypeError
               /\ lastAlert' = NoAlert
               /\ UNCHANGED <<events, form, editingIndex, filtered, crashed>>
          ELSE /\ events' = SetAt(events,
                                  FindIndexById(events, filtered[editingIndex[1] + 1].id),
                                  row)
               /\ RenderNext(events', filter)
               /\ editingIndex' = NoIndex
               /\ form' = emptyForm
               /\ lastAlert' = NoAlert
    /\ UNCHANGED <<filter, icsDefaults, icsPending, harnessVars>>

\* removeEvent: setEvents((prev) => prev.filter((e) => e.id !== id))
removeEvent(ev, id) == IF Falsy(id) THEN ev ELSE SelectSeq(ev, LAMBDA e : e.id # id)

\* the Delete button of the form, shown while an edit is open
deleteEditing ==
    /\ ~crashed
    /\ editingIndex # NoIndex
    /\ LET id == IF editingIndex[1] < Len(filtered) THEN filtered[editingIndex[1] + 1].id
                 ELSE Undefined
       IN  /\ events' = removeEvent(events, id)
           /\ IF Falsy(id) THEN UNCHANGED <<filtered, crashed>>
              ELSE RenderNext(events', filter)
    /\ editingIndex' = NoIndex
    /\ form' = emptyForm
    /\ lastAlert' = NoAlert
    /\ UNCHANGED <<filter, icsDefaults, icsPending, harnessVars>>

\* Clear All, confirmed
clearAll ==
    /\ ~crashed
    /\ events' = <<>>
    /\ RenderNext(events', filter)
    /\ lastAlert' = NoAlert
    /\ UNCHANGED <<filter, form, editingIndex, icsDefaults, icsPending,
                   harnessVars>>

\* the onChange handler of the search input
setFilter(q) ==
    /\ ~crashed
    /\ filter' = [filter EXCEPT !.q = q]
    /\ filter' # filter
    /\ RenderNext(events, filter')
    /\ lastAlert' = NoAlert
    /\ UNCHANGED <<events, form, editingIndex, icsDefaults, icsPending,
                   harnessVars>>

\* importJSONFile: the read it starts keeps nothing of the state, and r.onload runs
\* later as one task on the state of that moment; the action is that task
importJSONFile(file) ==
    /\ ~crashed
    /\ LET data == ParsedJson(file)
       IN  IF data.kind = "array"
           THEN /\ Len(data.rows) <= MaxEvents
                /\ events' = data.rows
                /\ RenderNext(events', filter)
                /\ lastAlert' = NoAlert
           ELSE IF data.kind = "invalid"
           THEN /\ lastAlert' = [kind |-> "Invalid JSON", n |-> 0]
                /\ UNCHANGED <<events, filtered, crashed>>
           ELSE /\ lastAlert' = NoAlert
                /\ UNCHANGED <<events, filtered, crashed>>
    /\ UNCHANGED <<filter, form, editingIndex, icsDefaults, icsPending, harnessVars>>

\* importICSFile up to `await file.text()`: the continuation keeps the icsDefaults
\* of this render
importICSFile(file) ==
    /\ ~crashed
    /\ InFlight < MaxPending
    /\ icsPending' = icsPending (+) SetToBag({[file |-> file, dflt |-> icsDefaults]})
    /\ lastAlert' = NoAlert
    /\ UNCHANGED <<events, filter, form, editingIndex, filtered, crashed, icsDefaults, harnessVars>>

\* the updater keeps only the imported rows whose id is not in the collection yet
appendImportedNew(prev, imported) ==
    prev \o SelectSeq(imported, LAMBDA r : ~\E i \in 1..Len(prev) : prev[i].id = r.id)

\* setEvents((prev) => [...prev, ...imported])
appendImported(prev, imported) == prev \o imported

\* importICSFile after the await, for a call in flight
icsLoaded(call) ==
    /\ ~crashed
    /\ BagIn(call, icsPending)
    /\ LET r == importBlocks(FileBlocks[call.file], call.dflt, rulesOf(call.dflt), 0, <<>>)
       IN  /\ Len(events) + Len(r.imported) <= MaxEvents
           /\ events' = appendImported(events, r.imported)
           /\ lastAlert' = [kind |-> "imported", n |-> Len(r.imported)]
    /\ icsPending' = icsPending (-) SetToBag({call})
    /\ RenderNext(events', filter)
    /\ UNCHANGED <<filter, form, editingIndex, icsDefaults, harnessVars>>

Next ==
    \/ startAdd
    \/ \E idx \in 0..(MaxEvents - 1) : startEdit(idx)
    \/ \E name \in FormNames : setForm(name)
    \/ saveForm
    \/ deleteEditing
    \/ clearAll
    \/ \E q \in FilterQueries : setFilter(q)
    \/ \E file \in JsonFiles : importJSONFile(file)
    \/ \E file \in IcsFiles : importICSFile(file)
    \/ \E call \in BagToSet(icsPending) : icsLoaded(call)

Spec == Init /\ [][Next]_vars

-----------------------------------------------------------------------------
(* Calendar import: which blocks become bookings *)

\* both the DTSTART and the DTEND of the block decode to a point in time
BothDecodable(b) ==
    LET p == readProps(b)
    IN  asLocal(Prop(p, K_DTSTART)) # <<>> /\ asLocal(Prop(p, K_DTEND)) # <<>>

\* the rows a step has put at the end of the collection
Appended == SubSeq(events', Len(events) + 1, Len(events'))

\* the step completes the import call: it leaves the bag of calls in flight
Completes(call) == BagIn(call, icsPending) /\ icsPending' = icsPending (-) SetToBag({call})

\* the row is the booking of the block: its name, date and times are the block's
RowOfBlock(row, b) ==
    LET p == readProps(b)
    IN  /\ row.name = Or(Prop(p, K_SUMMARY), EmptyStr)
        /\ row.date = fmtDate(asLocal(Prop(p, K_DTSTART)))
        /\ row.start = fmtTime(asLocal(Prop(p, K_DTSTART)))
        /\ row.end = fmtTime(asLocal(Prop(p, K_DTEND)))

\* C8: completing an ICS import makes one booking for each block whose DTSTART and
\* DTEND both decode, and none for any other block: the bookings added are those of
\* the decodable blocks, the number announced is their number, and a block lacking
\* either end neither stops the import nor fails the render.
C8_SkipsUndecodableBlocks ==
    [][\A call \in BagToSet(icsPending) :
           Completes(call) =>
               LET good == SelectSeq(FileBlocks[call.file], BothDecodable)
               IN  /\ Len(Appended) = Len(good)
                   /\ \A k \in 1..Len(good) : RowOfBlock(Appended[k], good[k])
                   /\ lastAlert' = [kind |-> "imported", n |-> Len(good)]
                   /\ ~crashed']_vars

\* a.ics, whose second block of three has no DTEND, has been imported: two
\* bookings, from its first and third block, and 2 announced
C8_Witness ==
    /\ lastAlert = [kind |-> "imported", n |-> 2]
    /\ Len(events) = 2
    /\ events[1].id = <<"u">> /\ events[1].name = <<"h", "a", "l", "l">>
    /\ events[2].name = <<"x">> /\ events[2].date = D_2024_01_31
    /\ \E b \in Range(FileBlocks["a.ics"]) : Prop(readProps(b), K_DTEND) = Undefined

\* C9: completing an ICS import puts its bookings, in the order of their blocks,
\* after the collection as it is then, which stays as it was: nothing is dropped
\* or merged because an id is already there, also when another import is in flight.
C9_AppendsInBlockOrder ==
    [][\A call \in BagToSet(icsPending) :
           Completes(call) =>
               events' = events \o importICS(FileText(call.file), call.dflt, 0).imported]_vars

\* an import has just completed while another, started before that, is still in
\* flight, and its booking is in the collection
C9_Witness ==
    /\ lastAlert.kind = "imported" /\ lastAlert.n = 1
    /\ BagCardinality(icsPending) = 1
    /\ Len(events) >= 1 /\ events[Len(events)].id = <<"u">>

\* two overlapping imports of b.ics have both completed: the booking of each is there
C9_BothKept ==
    /\ lastAlert.kind = "imported"
    /\ icsPending = EmptyBag
    /\ Len(events) = 2 /\ events[1] = events[2] /\ events[1].id = <<"u">>

-----------------------------------------------------------------------------
(* Identity *)

\* C10 as stated: every booking of the collection has an identifier that no other
\* booking of the collection has.
C10_AsStated ==
    \A i, j \in 1..Len(events) : i # j => events[i].id # events[j].id

-----------------------------------------------------------------------------
(* Numeric fields: what is typed into the Fixed Fee input and saved *)

NumAlphabet == {"-", "5", "a", " "}

NumTexts == SeqUpTo(NumAlphabet, MaxNumText)

\* the onChange handler of the Fixed Fee input
setFormFee(text) ==
    /\ ~crashed
    /\ form' = [form EXCEPT !.fee = toNum(JsStr(text))]
    /\ lastAlert' = NoAlert
    /\ UNCHANGED <<events, filter, editingIndex, filtered, crashed, icsDefaults, icsPending,
                   harnessVars>>

NextNum ==
    \/ \E text \in NumTexts : setFormFee(text)
    \/ \E name \in FormNames : setForm(name)
    \/ saveForm
    \/ startAdd
    \/ \E idx \in 0..(MaxEvents - 1) : startEdit(idx)

SpecNum == Init /\ [][NextNum]_vars

\* C11 as stated: every booking of the collection has guests, rate, day, fee, food
\* and drinks that are numbers not below 0.
C11_AsStated ==
    \A i \in 1..Len(events) :
        /\ events[i].guests >= 0 /\ events[i].rate >= 0 /\ events[i].day >= 0
        /\ events[i].fee >= 0 /\ events[i].food >= 0 /\ events[i].drinks >= 0

-----------------------------------------------------------------------------
(* Calendar import: block extraction *)

\* the lines given to the block loop: the two markers, an ordinary line, and a
\* line that is a marker but for its case
BlockLines == {K_BEGIN, K_END, <<"X">>, ToLowerCase(K_END)}

InitBlocks ==
    /\ AppIdle
    /\ pc = "idle"
    /\ arg \in SeqUpTo(BlockLines, MaxLines)
    /\ ret = <<>>

Extract ==
    /\ pc = "idle"
    /\ pc' = "extracted"
    /\ ret' = extractBlocks(arg, <<>>, <<>>)
    /\ UNCHANGED <<arg, appVars>>

NextBlocks == Extract

SpecBlocks == InitBlocks /\ [][NextBlocks]_vars

Marker(line) == line = K_BEGIN \/ line = K_END

\* the BEGIN:VEVENT that has a block open when line e is reached: the nearest
\* marker before e, if it is a BEGIN:VEVENT (0 when no block is open)
OpenedAt(lines, e) ==
    LET before == {k \in 1..(e - 1) : Marker(lines[k])}
        last == CHOOSE k \in before : \A m \in before : m <= k
    IN  IF before # {} /\ lines[last] = K_BEGIN THEN last ELSE 0

\* the blocks emitted by the first n lines: one for each END:VEVENT reached while
\* a block is open, holding the lines since the BEGIN:VEVENT that opened it
RECURSIVE BlocksWithin(_, _)
BlocksWithin(lines, n) ==
    IF n = 0 THEN <<>>
    ELSE IF lines[n] = K_END /\ OpenedAt(lines, n) > 0
    THEN Append(BlocksWithin(lines, n - 1), SubSeq(lines, OpenedAt(lines, n) + 1, n - 1))
    ELSE BlocksWithin(lines, n - 1)

\* C12: the blocks extracted are, in order, one for each END:VEVENT reached while a
\* block is open, each holding exactly the lines that followed the BEGIN:VEVENT
\* which opened it; an END:VEVENT with no open block emits nothing, and no block
\* holds a BEGIN:VEVENT or END:VEVENT line.
C12_BlockMachine ==
    pc = "extracted" =>
        /\ ret = BlocksWithin(arg, Len(arg))
        /\ \A i \in 1..Len(ret) : \A k \in 1..Len(ret[i]) : ~Marker(ret[i][k])

\* an END:VEVENT with no open block, then a block of one line
C12_Witness ==
    /\ pc = "extracted"
    /\ arg = <<K_END, K_BEGIN, <<"X">>, K_END>>
    /\ ret = << <<<<"X">>>> >>

-----------------------------------------------------------------------------
(* Calendar import: decoding a date or date-time value *)

\* values around which others are built: dates, date-times, and near misses
DateCores ==
    {<<"2", "0", "2", "4", "0", "1", "1", "5">>, <<"2", "0", "2", "4", "0", "1", "1", "5", "T", "0", "9", "0", "0", "0", "0">>, <<"2", "0", "2", "4", "0", "1", "1", "6", "T", "2", "3", "3", "0", "0", "0">>, <<"2", "0", "2", "4", "-", "0", "1", "-", "1", "5">>, <<"2", "0", "2", "4", "0", "1", "1", "5", "T", "0", "9", "0", "0">>,
     <<"2", "0", "2", "4", "0", "1", "1", "5", "t", "0", "9", "0", "0", "0", "0">>, EmptyStr}

DatePrefixes == {EmptyStr, <<"x">>, <<"2">>}

DateSuffixes == {EmptyStr, <<"Z">>, <<"x">>, <<"Z", "x">>, <<"5">>}

DateValues ==
    {p \o core \o s : p \in DatePrefixes, core \in DateCores, s \in DateSuffixes}
        \cup {Undefined}

InitDate ==
    /\ AppIdle
    /\ pc = "idle"
    /\ arg \in DateValues
    /\ ret = <<>>

Decode ==
    /\ pc = "idle"
    /\ pc' = "decoded"
    /\ ret' = asLocal(arg)
    /\ UNCHANGED <<arg, appVars>>

NextDate == Decode

SpecDate == InitDate /\ [][NextDate]_vars

\* exactly 8 digits
IsDateShape(v) == Len(v) = 8 /\ AllDigits(v)

\* exactly 8 digits, T, 6 digits, and then nothing or Z
IsDateTimeShape(v) ==
    /\ Len(v) \in {15, 16}
    /\ AllDigits(SubSeq(v, 1, 8)) /\ v[9] = "T" /\ AllDigits(SubSeq(v, 10, 15))
    /\ Len(v) = 16 => v[16] = "Z"

\* C13 as stated: a value decodes to a date if and only if it is exactly 8 digits,
\* or exactly 8 digits, T, 6 digits and an optional Z; a value that only contains
\* such a pattern among other characters does not decode.
C13_AsStated ==
    pc = "decoded" => (ret # <<>> <=> (IsDateShape(arg) \/ IsDateTimeShape(arg)))

\* what holds instead: every value of one of the two shapes decodes, with Z as UTC
\* and without it as local time, and so does every value that holds the
\* date-time pattern anywhere, whatever comes before or after it
C13_PatternAnywhere ==
    pc = "decoded" =>
        /\ ret # <<>> <=>
               (IsDateShape(arg) \/ \E i \in 1..(Len(arg) - 14) : IsDateTimeShape(SubSeq(arg, i, i + 14)))
        /\ arg = <<"2", "0", "2", "4", "0", "1", "1", "5", "T", "0", "9", "0", "0", "0", "0">> => fmtDate(ret) = D_2024_01_15 /\ fmtTime(ret) = T_09_00
        /\ arg = <<"2", "0", "2", "4", "0", "1", "1", "6", "T", "2", "3", "3", "0", "0", "0", "Z">> => fmtDate(ret) = <<"2", "0", "2", "4", "-", "0", "1", "-", "1", "7">> /\ fmtTime(ret) = <<"0", "0", ":", "3", "0">>
        /\ arg = <<"2", "0", "2", "4", "0", "1", "1", "6", "T", "2", "3", "3", "0", "0", "0">> => fmtDate(ret) = <<"2", "0", "2", "4", "-", "0", "1", "-", "1", "6">> /\ fmtTime(ret) = <<"2", "3", ":", "3", "0">>

-----------------------------------------------------------------------------
(* The displayed list: order *)

\* no later booking of the list has a smaller date string
AscendingByDate(l) == \A i \in 1..Len(l) : \A j \in (i + 1)..Len(l) : ~StrGt(l[i].date, l[j].date)

\* the bookings of one date string stand in l in the order they have in the collection
TiesInCollectionOrder(l, ev) ==
    \A k \in 1..Len(l) :
        SelectSeq(l, LAMBDA e : e.date = l[k].date)
            = SelectSeq(ev, LAMBDA e : e.date = l[k].date /\ \E m \in 1..Len(l) : l[m] = e)

\* C14 as stated: the displayed list is ascending by date string, and bookings with
\* equal date strings keep the relative order they have in the booking collection.
C14_AsStated ==
    (pc = "rendered" /\ ~crashed) =>
        AscendingByDate(filtered) /\ TiesInCollectionOrder(filtered, events)

\* what holds instead: the displayed list is ascending by date string
C14_AscendingOnly == (pc = "rendered" /\ ~crashed) => AscendingByDate(filtered)

-----------------------------------------------------------------------------
(* The per-year breakdown *)

MaxYearList == 2

JsNaN == [t |-> "NaN", n |-> 0, s |-> EmptyStr]

\* new Date(dateStr) of a booking's date: a well-formed yyyy-MM-dd calendar date is
\* read as midnight UTC of that day; the empty string and a text with no date in
\* it are Invalid Date. Nothing is thrown for any string.
NewDate(dateStr) ==
    IF /\ Len(dateStr) = 10
       /\ dateStr[5] = "-" /\ dateStr[8] = "-"
       /\ AllDigits(Slice(dateStr, 0, 4))
       /\ AllDigits(Slice(dateStr, 5, 7))
       /\ AllDigits(Slice(dateStr, 8, 10))
    THEN LET y == DecimalValue(Slice(dateStr, 0, 4))
             m == DecimalValue(Slice(dateStr, 5, 7))
             d == DecimalValue(Slice(dateStr, 8, 10))
         IN  IF m \in 1..12 /\ d \in 1..DaysInMonth(y, m)
             THEN <<DaysFromCivil(y, m, d) * SecPerDay>>
             ELSE <<>>
    ELSE <<>>

\* Date.prototype.getFullYear(): the local year, NaN of an Invalid Date
getFullYear(date) == IF date = <<>> THEN JsNaN ELSE JsNum(LocalFields(date).year)

\* try { return new Date(e.date).getFullYear() } catch { return undefined }: neither
\* call throws, so the catch branch is never entered
yearOf(e) == getFullYear(NewDate(e.date))

\* the character U+2014 (em dash)
EmDash == "U+2014"

K_UNKNOWN == <<EmDash>>

K_NaN == <<"N", "a", "N">>

\* String(yearOf(e) ?? K_UNKNOWN): only null and undefined give way to the dash
yearKey(e) ==
    LET y == yearOf(e)
    IN  IF y.t = "undefined" \/ y.t = "null" THEN K_UNKNOWN
        ELSE IF y.t = "NaN" THEN K_NaN
        ELSE NumToStr(y.n)

zeroYear ==
    [events |-> 0, taken |-> 0, canceled |-> 0, revenue |-> Num(0), lost |-> Num(0),
     guests |-> 0]

AddToYear(map, e) ==
    LET y == yearKey(e)
        old == IF y \in DOMAIN map THEN map[y] ELSE zeroYear
        new == [events |-> old.events + 1,
                taken |-> old.taken + (IF e.status = "Taken" THEN 1 ELSE 0),
                canceled |-> old.canceled + (IF e.status = "Canceled" THEN 1 ELSE 0),
                revenue |-> Add(old.revenue, revenueFor(e)),
                lost |-> Add(old.lost, lostFor(e)),
                guests |-> old.guests + (IF e.status = "Taken" THEN e.guests ELSE 0)]
    IN  [x \in DOMAIN map \cup {y} |-> IF x = y THEN new ELSE map[x]]

RECURSIVE perYearMap(_, _)
perYearMap(map, fl) ==
    IF fl = <<>> THEN map ELSE perYearMap(AddToYear(map, Head(fl)), Tail(fl))

\* the characters of the year keys in ascending order of collation: punctuation,
\* then digits, then letters
CollationOrder == <<EmDash, "-">> \o Digits \o <<"a", "N">>

CollationRank(c) == CHOOSE i \in 1..Len(CollationOrder) : CollationOrder[i] = c

\* a.localeCompare(b) < 0 for two year keys
localeBefore(a, b) ==
    \/ \E k \in 1..Len(a) :
          /\ k <= Len(b)
          /\ SubSeq(a, 1, k - 1) = SubSeq(b, 1, k - 1)
          /\ CollationRank(a[k]) < CollationRank(b[k])
    \/ Len(a) < Len(b) /\ SubSeq(b, 1, Len(a)) = a

RECURSIVE sortedEntries(_)
sortedEntries(map) ==
    IF DOMAIN map = {} THEN <<>>
    ELSE LET k == CHOOSE x \in DOMAIN map : \A z \in DOMAIN map \ {x} : localeBefore(x, z)
         IN  <<[key |-> k, bucket |-> map[k]]>>
                 \o sortedEntries([x \in DOMAIN map \ {k} |-> map[x]])

\* Object.entries(map).sort((a, b) => a[0].localeCompare(b[0]))
perYear(fl) == sortedEntries(perYearMap(<<>>, fl))

\* the dates of the enumerated bookings: two years apart by one day, no date, no
\* date in the text
YearDates == {D_2023_12_31, D_2024_01_01, EmptyStr, <<"x">>}

YearBookings ==
    { [emptyForm EXCEPT !.name = <<"B">>, !.rooms = <<"Cafe">>, !.status = st, !.date = date,
                        !.start = T_09_00, !.end = T_11_30, !.fee = 100, !.guests = 20] :
        st \in {"Taken", "Canceled"}, date \in YearDates }

InitYear ==
    /\ arg \in SeqUpTo(YearBookings, MaxYearList)
    /\ pc = "idle"
    /\ ret = <<>>
    /\ events = <<>>
    /\ filter = InitFilter
    /\ filtered = <<>>
    /\ crashed = FALSE
    /\ form = emptyForm
    /\ editingIndex = NoIndex
    /\ icsDefaults = InitIcsDefaults
    /\ icsPending = EmptyBag
    /\ lastAlert = NoAlert

\* yearOf of every booking of the list, and perYear of the list
Tally ==
    /\ pc = "idle"
    /\ pc' = "tallied"
    /\ ret' = [years |-> [i \in 1..Len(arg) |-> yearOf(arg[i])], perYear |-> perYear(arg)]
    /\ UNCHANGED <<arg>>
    /\ UNCHANGED appVars

NextYear == Tally

SpecYear == InitYear /\ [][NextYear]_vars

Readable(dateStr) == NewDate(dateStr) # <<>>

\* the year written in a well-formed yyyy-MM-dd date
CalendarYear(dateStr) == DecimalValue(SubSeq(dateStr, 1, 4))

\* the entries of the breakdown whose key is k
EntriesOf(k) == { j \in 1..Len(ret.perYear) : ret.perYear[j].key = k }

\* the bookings of the list whose date cannot be read
Unreadable == { i \in 1..Len(arg) : ~Readable(arg[i].date) }

KeysAscending ==
    \A i \in 1..Len(ret.perYear) : \A j \in (i + 1)..Len(ret.perYear) :
        StrGt(ret.perYear[j].key, ret.perYear[i].key)

\* C15 as stated: yearOf gives the calendar year of the booking's date and, for a
\* date that cannot be read, undefined, without raising; the per-year breakdown
\* counts all bookings of unreadable date in one bucket under the unknown key,
\* apart from every year bucket, and lists its buckets in ascending string order
\* of their keys.
C15_AsStated ==
    pc = "tallied" =>
        /\ \A i \in 1..Len(arg) :
             ret.years[i] = IF Readable(arg[i].date)
                            THEN JsNum(CalendarYear(arg[i].date)) ELSE JsUndefined
        /\ Unreadable # {} =>
             /\ Cardinality(EntriesOf(K_UNKNOWN)) = 1
             /\ \A j \in EntriesOf(K_UNKNOWN) :
                  ret.perYear[j].bucket.events = Cardinality(Unreadable)
        /\ KeysAscending

\* what holds instead: yearOf gives the calendar year of a readable date and NaN of
\* an unreadable one; the bookings of unreadable date are counted in one bucket
\* under the key "NaN", no bucket has the unknown key, every year has one bucket
\* counting its bookings, and the keys ascend in string order
C15_NaNBucket ==
    pc = "tallied" =>
        /\ \A i \in 1..Len(arg) :
             ret.years[i] = IF Readable(arg[i].date)
                            THEN JsNum(CalendarYear(arg[i].date)) ELSE JsNaN
        /\ EntriesOf(K_UNKNOWN) = {}
        /\ Cardinality(EntriesOf(K_NaN)) = (IF Unreadable = {} THEN 0 ELSE 1)
        /\ \A j \in EntriesOf(K_NaN) :
             ret.perYear[j].bucket.events = Cardinality(Unreadable)
        /\ \A i \in 1..Len(arg) :
             Readable(arg[i].date) =>
                 /\ Cardinality(EntriesOf(NumToStr(CalendarYear(arg[i].date)))) = 1
                 /\ \A j \in EntriesOf(NumToStr(CalendarYear(arg[i].date))) :
                      ret.perYear[j].bucket.events
                          = Cardinality({ m \in 1..Len(arg) :
                                            /\ Readable(arg[m].date)
                                            /\ CalendarYear(arg[m].date)
                                                 = CalendarYear(arg[i].date) })
        /\ KeysAscending

\* a booking of no date and a booking of 2024 are tallied under "2024" and "NaN"
C15_NaNBucket_Witness ==
    /\ pc = "tallied"
    /\ Len(arg) = 2
    /\ arg[1].date = EmptyStr /\ arg[2].date = D_2024_01_01
    /\ ret.years = <<JsNaN, JsNum(2024)>>
    /\ Len(ret.perYear) = 2
    /\ ret.perYear[1].key = NumToStr(2024)
    /\ ret.perYear[2].key = K_NaN

-----------------------------------------------------------------------------
(* Editing a booking *)

\* the fields of the form that no input of the model writes after startEdit
KeptFields == (DOMAIN emptyForm) \ {"name", "date", "start", "end"}

\* b can be the booking that startEdit copied into the form
Loaded(b) == \A k \in KeptFields : b[k] = form[k]

Filled(row) == ~(Falsy(row.name) \/ Falsy(row.date) \/ Falsy(row.start) \/ Falsy(row.end))

\* C16 as stated: a saveForm that ends an edit, with name, date, start and end
\* filled, replaces exactly the booking that was loaded into the form: the
\* collection keeps its length, the saved row stands at the position of a booking
\* the form was loaded from, and every other booking is unchanged.
C16_AsStated ==
    [][(saveForm /\ editingIndex # NoIndex /\ Filled(FormRow(form))) =>
           \E p \in 1..Len(events) :
               /\ Loaded(events[p])
               /\ events' = [events EXCEPT ![p] = FormRow(form)]]_vars

====
